---- MODULE Spec2Model ----
(***************************************************************************)
(* Model of the InControlPlaneOverride patch-outcome classification        *)
(* (apis/spaces/v1alpha1/incontrolplaneoverride_types.go) and of the       *)
(* reconciliation pass that uses it.                                       *)
(*                                                                         *)
(* Go values are encoded as follows:                                       *)
(*   - a string is a sequence of tokens; the tokens that matter to the     *)
(*     regular expression are "P" (the literal "failed to create typed     *)
(*     patch object"), "F" (the literal "field not declared in schema"),   *)
(*     "c" (any other character that is not a newline) and "n" (newline);  *)
(*   - a pointer is a sequence of length at most one: <<>> is nil and      *)
(*     <<v>> points to v.                                                  *)
(***************************************************************************)
EXTENDS Integers, Sequences, FiniteSets, TLC

VARIABLES
    cErr,        \* classifier run: the error handed to the classifier
    cObj,        \* classifier run: the object the patch was attempted on
    cUid,        \* classifier run: the uid pointer handed to PatchFailure
    cOut,        \* classifier run: <<>> before the call, <<ObjectReference>> after
    pc,          \* pass: "idle", "patching", "done", "cancelled", "failed", "deleted"
    mode,        \* pass: spec.propagationMode of the override
    discovered,  \* pass: the walker's output for the running pass
    errs,        \* pass: the executor's answers so far in the running pass
    results,     \* pass: the outcomes classified so far in the running pass
    objectRefs,  \* persisted status.objectRefs
    conditions,  \* persisted status.conditions (the Ready condition, if any)
    priorLen,    \* pass: the length of status.objectRefs when the pass started
    wSnap,       \* walk: the cluster snapshot the walker reads
    wMode,       \* walk: the propagation mode
    wOut,        \* walk: <<>> before the walk, the walker's output after
    aPatch,      \* admission: the Patch submitted
    aVerdict,    \* admission: "pending", "accepted" or "rejected"
    uSpec,       \* ControlPlane update: the stored ControlPlaneSpec
    uCreated,    \* ControlPlane update: the ControlPlaneSpec as created
    uLast,       \* ControlPlane update: what the last request did
    mg,          \* accessors: the ControlPlane the getters and setters act on
    gLast,       \* accessors: the argument of the last call of each setter
    kPrev,       \* conditions: the condition set before the current one
    kCur         \* conditions: the condition set last, with its constructor

cvars == <<cErr, cObj, cUid, cOut>>
pvars == <<pc, mode, discovered, errs, results, objectRefs, conditions,
          priorLen>>
wvars == <<wSnap, wMode, wOut>>
avars == <<aPatch, aVerdict>>
uvars == <<uSpec, uCreated, uLast>>
gvars == <<mg, gLast>>
kvars == <<kPrev, kCur>>
xvars == <<wSnap, wMode, wOut, aPatch, aVerdict, uSpec, uCreated, uLast, mg,
           gLast, kPrev, kCur>>
vars == <<cErr, cObj, cUid, cOut, pc, mode, discovered, errs, results,
          objectRefs, conditions, priorLen, wSnap, wMode, wOut, aPatch, aVerdict,
          uSpec, uCreated, uLast, mg, gLast, kPrev, kCur>>

(***************************************************************************)
(* Bounds                                                                  *)
(***************************************************************************)
MaxMsgLen == 3
MaxCauses == 2
NObjs == 3

RECURSIVE SeqsUpTo(_, _)
SeqsUpTo(S, n) ==
    IF n = 0 THEN {<<>>}
    ELSE LET shorter == SeqsUpTo(S, n - 1)
         IN  shorter \cup {Append(s, x) : s \in shorter, x \in S}

(***************************************************************************)
(* Pointers (k8s.io/utils/ptr)                                             *)
(***************************************************************************)
PtrTo(v) == <<v>>

Deref(p, def) == IF p = <<>> THEN def ELSE p[1]

(***************************************************************************)
(* PatchState, PatchStateReason                                            *)
(***************************************************************************)
PatchStateSuccess == "Success"
PatchStateSkipped == "Skipped"
PatchStateError == "Error"
PatchStates == {PatchStateSuccess, PatchStateSkipped, PatchStateError}

PatchStateReasonConflict == "Conflict"
PatchStateReasonSchemaMismatch == "SchemaMismatch"

(***************************************************************************)
(* Errors.  A StatusError carries a metav1.Status {reason, code, message,  *)
(* details}; it may reach the classifier wrapped by another error          *)
(* (errors.Wrap), which changes the error text but not what errors.As      *)
(* finds.  Any other error only has a text.                                *)
(***************************************************************************)
StatusReasonNotFound == "NotFound"
StatusReasonInternalError == "InternalError"
StatusReasonUnknown == ""
CauseTypeFieldManagerConflict == "FieldManagerConflict"

KnownReasons == {"NotFound", "Conflict", "InternalError"}
StatusReasons == KnownReasons \cup {StatusReasonUnknown}
HttpCodes == {409, 500}
CauseTypes == {CauseTypeFieldManagerConflict, "FieldValueInvalid"}
Tokens == {"P", "F", "c", "n"}
Messages == SeqsUpTo(Tokens, MaxMsgLen)
DetailsSet == {<<>>} \cup {<<[causes |-> cs]>> : cs \in SeqsUpTo(CauseTypes, MaxCauses)}

NilError ==
    [kind |-> "nil", wrap |-> FALSE, reason |-> "", code |-> 0,
     message |-> <<>>, details |-> <<>>]
StatusErrors ==
    [kind : {"status"}, wrap : BOOLEAN, reason : StatusReasons, code : HttpCodes,
     message : Messages, details : DetailsSet]
PlainErrors ==
    [kind : {"plain"}, wrap : {FALSE}, reason : {""}, code : {0},
     message : Messages, details : {<<>>}]
Errors == StatusErrors \cup PlainErrors

\* errors.As(err, &sErr): a StatusError is found in err's chain.
ErrorsAs_PlainToo(err) == err.kind \in {"status", "plain"}

ErrorsAs(err) == err.kind = "status"

\* err.Error(): a StatusError's text is its status message; a wrapping error
\* puts its own text in front of it.
ErrorText(err) == IF err.wrap THEN <<"c">> \o err.message ELSE err.message

\* kerrors.IsInternalError(err)
IsInternalError(err) ==
    /\ ErrorsAs(err)
    /\ \/ err.reason = StatusReasonInternalError
       \/ err.reason \notin KnownReasons /\ err.code = 500

\* regexFieldNotDeclared.MatchString(s):
\*   failed to create typed patch object.+field not declared in schema
\* "." matches any character but a newline, and ".+" at least one of them.
MatchString(s) ==
    \E i, j \in DOMAIN s :
        /\ i + 1 < j
        /\ s[i] = "P"
        /\ s[j] = "F"
        /\ \A k \in (i + 1)..(j - 1) : s[k] # "n"

(***************************************************************************)
(* Objects of the control plane: object i as the unstructured object the   *)
(* patch returns, and as the typed reference the walker hands out.         *)
(***************************************************************************)
Objs == 1..NObjs

Unstructured(i) ==
    [apiVersion |-> <<"g", "/", "v">>, kind |-> "K", name |-> i,
     namespace |-> "ns", uid |-> i]

TypedRef(i) ==
    [apiGroup |-> PtrTo(<<"g">>), kind |-> "K", name |-> i,
     namespace |-> PtrTo("ns")]

(***************************************************************************)
(* ObjectReference and its constructors                                    *)
(***************************************************************************)
NotFound_StatusOnly(r) == r.status = PatchStateError

NotFound(r) ==
    /\ r.status = PatchStateError
    /\ Deref(r.reason, "") = StatusReasonNotFound

PatchSuccess_WithReason(u) ==
    [ref |-> [apiGroup |-> PtrTo(u.apiVersion), kind |-> u.kind,
              name |-> u.name, namespace |-> PtrTo(u.namespace)],
     uid |-> PtrTo(u.uid),
     status |-> PatchStateSuccess,
     reason |-> PtrTo(""),
     message |-> <<>>]

PatchSuccess_NoUID(u) ==
    [ref |-> [apiGroup |-> PtrTo(u.apiVersion), kind |-> u.kind,
              name |-> u.name, namespace |-> PtrTo(u.namespace)],
     uid |-> <<>>,
     status |-> PatchStateSuccess,
     reason |-> <<>>,
     message |-> <<>>]

PatchSuccess(u) ==
    [ref |-> [apiGroup |-> PtrTo(u.apiVersion), kind |-> u.kind,
              name |-> u.name, namespace |-> PtrTo(u.namespace)],
     uid |-> PtrTo(u.uid),
     status |-> PatchStateSuccess,
     reason |-> <<>>,
     message |-> <<>>]

HasConflictCause(err) ==
    /\ err.details # <<>>
    /\ \E i \in DOMAIN err.details[1].causes :
           err.details[1].causes[i] = CauseTypeFieldManagerConflict

\* The conflict case tried before the schema-mismatch case.
PatchFailure_ConflictFirst(t, uid, err) ==
    LET isStatus == ErrorsAs(err)
        conflict == isStatus /\ HasConflictCause(err)
        schema == isStatus /\ ~conflict /\ IsInternalError(err)
                  /\ MatchString(err.message)
        ps == IF schema \/ conflict THEN PatchStateSkipped ELSE PatchStateError
        reason == CASE conflict -> PtrTo(PatchStateReasonConflict)
                    [] schema -> PtrTo(PatchStateReasonSchemaMismatch)
                    [] isStatus -> PtrTo(err.reason)
                    [] OTHER -> <<>>
    IN  [ref |-> t, uid |-> uid, status |-> ps, reason |-> reason,
         message |-> PtrTo(ErrorText(err))]

\* The schema-mismatch case without the IsInternalError test.
PatchFailure_NoInternalCheck(t, uid, err) ==
    LET isStatus == ErrorsAs(err)
        schema == isStatus /\ MatchString(err.message)
        conflict == isStatus /\ ~schema /\ HasConflictCause(err)
        ps == IF schema \/ conflict THEN PatchStateSkipped ELSE PatchStateError
        reason == CASE schema -> PtrTo(PatchStateReasonSchemaMismatch)
                    [] conflict -> PtrTo(PatchStateReasonConflict)
                    [] isStatus -> PtrTo(err.reason)
                    [] OTHER -> <<>>
    IN  [ref |-> t, uid |-> uid, status |-> ps, reason |-> reason,
         message |-> PtrTo(ErrorText(err))]

\* The message taken from sErr.Status().Message instead of err.Error().
PatchFailure_StatusMessage(t, uid, err) ==
    LET isStatus == ErrorsAs(err)
        schema == isStatus /\ IsInternalError(err) /\ MatchString(err.message)
        conflict == isStatus /\ ~schema /\ HasConflictCause(err)
        ps == IF schema \/ conflict THEN PatchStateSkipped ELSE PatchStateError
        reason == CASE schema -> PtrTo(PatchStateReasonSchemaMismatch)
                    [] conflict -> PtrTo(PatchStateReasonConflict)
                    [] isStatus -> PtrTo(err.reason)
                    [] OTHER -> <<>>
    IN  [ref |-> t, uid |-> uid, status |-> ps, reason |-> reason,
         message |-> PtrTo(err.message)]

\* The conflict case sets the state and leaves the reason as it was.
PatchFailure_ConflictKeepsReason(t, uid, err) ==
    LET isStatus == ErrorsAs(err)
        schema == isStatus /\ IsInternalError(err) /\ MatchString(err.message)
        conflict == isStatus /\ ~schema /\ HasConflictCause(err)
        ps == IF schema \/ conflict THEN PatchStateSkipped ELSE PatchStateError
        reason == CASE schema -> PtrTo(PatchStateReasonSchemaMismatch)
                    [] isStatus -> PtrTo(err.reason)
                    [] OTHER -> <<>>
    IN  [ref |-> t, uid |-> uid, status |-> ps, reason |-> reason,
         message |-> PtrTo(ErrorText(err))]

PatchFailure(t, uid, err) ==
    LET isStatus == ErrorsAs(err)
        schema == isStatus /\ IsInternalError(err) /\ MatchString(err.message)
        conflict == isStatus /\ ~schema /\ HasConflictCause(err)
        ps == CASE schema -> PatchStateSkipped
                [] conflict -> PatchStateSkipped
                [] OTHER -> PatchStateError
        reason == CASE schema -> PtrTo(PatchStateReasonSchemaMismatch)
                    [] conflict -> PtrTo(PatchStateReasonConflict)
                    [] isStatus -> PtrTo(err.reason)
                    [] OTHER -> <<>>
    IN  [ref |-> t, uid |-> uid, status |-> ps, reason |-> reason,
         message |-> PtrTo(ErrorText(err))]

(***************************************************************************)
(* Conditions                                                              *)
(* LastTransitionTime (metav1.Now()) is not modelled.                      *)
(***************************************************************************)
TypeReady == "Ready"
ConditionTrue == "True"
ConditionFalse == "False"

Deleted_ReadyTrue ==
    [type |-> TypeReady, status |-> ConditionTrue, reason |-> "Deleted"]

Deleted == [type |-> TypeReady, status |-> ConditionFalse, reason |-> "Deleted"]

Traversed_NotReady ==
    [type |-> TypeReady, status |-> ConditionFalse, reason |-> "Traversed"]

Traversed == [type |-> TypeReady, status |-> ConditionTrue, reason |-> "Traversed"]

(***************************************************************************)
(* The reconciliation pass: walker, executor, classifier, aggregator.      *)
(* The controller that runs the pass is described by the specification of  *)
(* the override engine; the types and constructors it uses are the ones    *)
(* above.                                                                  *)
(***************************************************************************)
PropagateAscend == "Ascending"
PropagateDescend == "Descending"
PropagateNone == "None"
PropagationModes == {PropagateAscend, PropagateDescend, PropagateNone}

Root == 1

\* A snapshot of the cluster's object graph: for each object the objects
\* its metadata.ownerReferences name and the objects its spec.resourceRef /
\* spec.resourceRefs name.
NoEdges == [x \in Objs |-> {}]
EdgeMaps == {g \in [Objs -> SUBSET Objs] : \A x \in Objs : Cardinality(g[x]) <= 1}
Snapshots ==
    {[owners |-> g, refs |-> h] : g \in EdgeMaps, h \in {NoEdges}}
    \cup {[owners |-> h, refs |-> g] : g \in EdgeMaps, h \in {NoEdges}}
    \cup {[owners |-> g, refs |-> g] : g \in EdgeMaps}

Min(S) == CHOOSE x \in S : \A y \in S : x <= y

\* The objects of S in a fixed order (the order the edges are listed in).
RECURSIVE InOrder(_)
InOrder(S) == IF S = {} THEN <<>> ELSE <<Min(S)>> \o InOrder(S \ {Min(S)})

SeqRange(s) == {s[i] : i \in DOMAIN s}

\* Follow the edges from the objects of the work list, depth first, never
\* visiting an identity twice.
\* The traversal given up at the first repeated identity.
RECURSIVE Traverse_StopOnRepeat(_, _, _)
Traverse_StopOnRepeat(work, out, edges) ==
    IF work = <<>> THEN out
    ELSE IF Head(work) \in SeqRange(out) THEN out
    ELSE Traverse_StopOnRepeat(InOrder(edges[Head(work)]) \o Tail(work),
                               Append(out, Head(work)), edges)

RECURSIVE Traverse(_, _, _)
Traverse(work, out, edges) ==
    IF work = <<>> THEN out
    ELSE IF Head(work) \in SeqRange(out) THEN Traverse(Tail(work), out, edges)
    ELSE Traverse(InOrder(edges[Head(work)]) \o Tail(work),
                  Append(out, Head(work)), edges)

\* Mode None treated as a walk up the owners.
Walk_NoneAscends(root, m, snap) ==
    CASE m = PropagateDescend -> Traverse(<<root>>, <<>>, snap.refs)
      [] OTHER -> Traverse(<<root>>, <<>>, snap.owners)

Walk(root, m, snap) ==
    CASE m = PropagateNone -> <<root>>
      [] m = PropagateAscend -> Traverse(<<root>>, <<>>, snap.owners)
      [] m = PropagateDescend -> Traverse(<<root>>, <<>>, snap.refs)

\* Every ownership graph over the objects, each with the reference graph
\* that points the other way (an object references what it owns).
AllEdgeMaps == [Objs -> SUBSET Objs]
Reverse(g) == [x \in Objs |-> {y \in Objs : x \in g[y]}]
WalkSnapshots == {[owners |-> g, refs |-> Reverse(g)] : g \in AllEdgeMaps}

\* The walks the cluster's snapshots can produce, per propagation mode.
Walks == [m \in PropagationModes |-> {Walk(Root, m, snap) : snap \in Snapshots}]

\* What the executor can answer for one object in a pass: no error, a
\* field-manager conflict, or a transport-level error.
ConflictError ==
    [kind |-> "status", wrap |-> FALSE, reason |-> "Conflict", code |-> 409,
     message |-> <<"c">>,
     details |-> <<[causes |-> <<CauseTypeFieldManagerConflict>>]>>]
TransportError ==
    [kind |-> "plain", wrap |-> FALSE, reason |-> "", code |-> 0,
     message |-> <<"c">>, details |-> <<>>]
ApplyErrors == {NilError, ConflictError, TransportError}

\* Classify(ref, uid, err)
Classify(i, uid, err) ==
    IF err = NilError THEN PatchSuccess(Unstructured(i))
    ELSE PatchFailure(TypedRef(i), uid, err)

AllTerminalOk(rs) ==
    \A i \in DOMAIN rs : rs[i].status \in {PatchStateSuccess, PatchStateSkipped}

NotTraversed ==
    [type |-> TypeReady, status |-> ConditionFalse, reason |-> "ReconcileError"]

\* Aggregate(results): objectRefs is replaced wholesale by the pass's results.
Persist_Append(old, rs) == old \o rs

Persist(old, rs) == rs

\* A cancelled pass persists nothing: the status stays what it was.
OnCancel_KeepPartial(old, partial) == partial

OnCancel(old, partial) == old

\* Aggregate(results): the readiness condition of a completed pass.
Readiness(rs) == IF AllTerminalOk(rs) THEN <<Traversed>> ELSE <<NotTraversed>>

(***************************************************************************)
(* Patch and its validation rules (kubebuilder markers).  A Patch as       *)
(* submitted: metadata and spec are optional objects; annotations is an    *)
(* optional map, given by its set of keys; managementPolicies an optional  *)
(* list.                                                                   *)
(***************************************************************************)
AnnotationPaused == "crossplane.io/paused"
AnnotationForceReconcileAt == "spaces.upbound.io/force-reconcile-at"
AnnotationKeys ==
    {AnnotationPaused, AnnotationForceReconcileAt,
     "crossplane.io/external-name", "example.org/other"}

PatchMinProperties == 1
AnnotationsMinProperties == 1
AnnotationsMaxProperties == 2

MetadataValues ==
    {[annotations |-> <<>>]} \cup {[annotations |-> <<K>>] : K \in SUBSET AnnotationKeys}
SpecValues ==
    {[managementPolicies |-> mp] : mp \in {<<>>, <<<<"*">>>>, <<<<"Observe">>>>}}
Patches ==
    [metadata : {<<>>} \cup {<<md>> : md \in MetadataValues},
     spec : {<<>>} \cup {<<sp>> : sp \in SpecValues}]

\* self.all(k, k == 'crossplane.io/paused' || k == 'spaces.upbound.io/force-reconcile-at')
AllowedKeys_Any(K) ==
    \E k \in K : k = AnnotationPaused \/ k = AnnotationForceReconcileAt

AllowedKeys(K) ==
    \A k \in K : k = AnnotationPaused \/ k = AnnotationForceReconcileAt

ValidAnnotations(K) ==
    /\ AllowedKeys(K)
    /\ Cardinality(K) >= AnnotationsMinProperties
    /\ Cardinality(K) <= AnnotationsMaxProperties

ValidMetadata(md) ==
    md.annotations # <<>> => ValidAnnotations(md.annotations[1])

\* The number of properties of the Patch object.
PatchProperties(p) == Len(p.metadata) + Len(p.spec)

ValidPatch(p) ==
    /\ PatchProperties(p) >= PatchMinProperties
    /\ p.metadata # <<>> => ValidMetadata(p.metadata[1])

(***************************************************************************)
(* ControlPlaneSpec and its validation rules.  Only the fields the rules   *)
(* read are kept: crossplane (autoUpgrade channel, version) and restore    *)
(* (source, finishedAt); optional fields are <<>> when absent.             *)
(***************************************************************************)
CrossplaneUpgradeNone == "None"
CrossplaneUpgradeStable == "Stable"

CrossplaneValues ==
    [autoUpgrade : {<<>>, <<CrossplaneUpgradeNone>>, <<CrossplaneUpgradeStable>>},
     version : {<<>>, <<"">>, <<"1.0">>}]
SourceValues == [kind : {"Backup", "Secret"}, name : {"a", "b"}]
RestoreValues == [source : SourceValues, finishedAt : {<<>>, <<1>>, <<2>>}]
ControlPlaneSpecs ==
    [crossplane : {<<>>} \cup {<<c>> : c \in CrossplaneValues},
     restore : {<<>>} \cup {<<r>> : r \in RestoreValues}]

\* +kubebuilder:default={"channel":"Stable"} on crossplane.autoUpgrade
Defaulted(s) ==
    IF s.crossplane # <<>> /\ s.crossplane[1].autoUpgrade = <<>>
    THEN [s EXCEPT !.crossplane =
              <<[@[1] EXCEPT !.autoUpgrade = <<CrossplaneUpgradeStable>>]>>]
    ELSE s

\* !has(oldSelf.restore) || has(self.restore)
RestoreNotUnset(old, new) == old.restore = <<>> \/ new.restore # <<>>

\* The rule written over self alone.
RestoreNotSetAfterCreation_SelfOnly(old, new) ==
    new.restore # <<>> \/ new.restore = <<>>

\* has(oldSelf.restore) || !has(self.restore)
RestoreNotSetAfterCreation(old, new) == old.restore # <<>> \/ new.restore = <<>>

\* !has(self.crossplane.autoUpgrade) || self.crossplane.autoUpgrade.channel
\* != "None" || self.crossplane.version != "": reading a field of an absent
\* object is an evaluation error, and a rule that errors rejects.
VersionWithChannelNone(s) ==
    /\ s.crossplane # <<>>
    /\ \/ s.crossplane[1].autoUpgrade = <<>>
       \/ s.crossplane[1].autoUpgrade[1] # CrossplaneUpgradeNone
       \/ /\ s.crossplane[1].version # <<>>
          /\ s.crossplane[1].version[1] # ""

\* !has(oldSelf.finishedAt) || oldSelf.finishedAt == self.finishedAt
FinishedAtImmutable(oldR, newR) ==
    oldR.finishedAt = <<>> \/ oldR.finishedAt = newR.finishedAt

\* self.kind == 'Backup' || self.kind == 'BackupSchedule' (apiGroup absent)
SourceKindSupported(src) == src.kind \in {"Backup", "BackupSchedule"}

\* oldSelf == self
SourceImmutable(oldSrc, newSrc) == oldSrc = newSrc

\* The rules without oldSelf: they apply to creates and updates.
ValidCreate(s) ==
    /\ VersionWithChannelNone(s)
    /\ s.restore # <<>> => SourceKindSupported(s.restore[1].source)

\* Transition rules apply where the old value exists.
ValidUpdate(old, new) ==
    /\ ValidCreate(new)
    /\ RestoreNotUnset(old, new)
    /\ RestoreNotSetAfterCreation(old, new)
    /\ (old.restore # <<>> /\ new.restore # <<>>)
         => /\ FinishedAtImmutable(old.restore[1], new.restore[1])
            /\ SourceImmutable(old.restore[1].source, new.restore[1].source)

(***************************************************************************)
(* The resource.Managed accessors of ControlPlane.  m is the ControlPlane: *)
(* the spec fields the accessors touch, and whether a call has panicked.   *)
(* Pointers and slices are <<>> when nil.                                  *)
(***************************************************************************)
ManagementPoliciesValues == {<<>>, <<"*">>, <<"Observe">>}
DeletionPolicyValues == {"Delete", "Orphan"}
PublishToValues == {<<>>, <<"store">>}
SecretReferenceValues ==
    {<<>>} \cup {<<[name |-> "s", namespace |-> ns]>> : ns \in {"ns1", "ns2"}}
ReferenceValues == {<<>>, <<"pc">>}

ControlPlanes ==
    [managementPolicies : ManagementPoliciesValues,
     deletionPolicy : DeletionPolicyValues,
     publishConnectionDetailsTo : PublishToValues,
     writeConnectionSecretToReference : SecretReferenceValues,
     panicked : {FALSE}]

GetDeletionPolicy(m) == m.deletionPolicy

GetManagementPolicies(m) == m.managementPolicies

GetProviderConfigReference(m) == <<>>

GetPublishConnectionDetailsTo(m) == m.publishConnectionDetailsTo

GetWriteConnectionSecretToReference(m) ==
    IF m.writeConnectionSecretToReference = <<>>
    THEN <<>>
    ELSE <<[name |-> m.writeConnectionSecretToReference[1].name,
            namespace |-> m.writeConnectionSecretToReference[1].namespace]>>

\* The body is empty.
SetDeletionPolicy(m, r) == m

SetManagementPolicies(m, r) == [m EXCEPT !.managementPolicies = r]

\* The body is empty.
SetProviderConfigReference(m, r) == m

SetPublishConnectionDetailsTo(m, r) == [m EXCEPT !.publishConnectionDetailsTo = r]

\* r.Name is read before the assignment: a nil r panics and nothing is
\* assigned.
SetWriteConnectionSecretToReference(m, r) ==
    IF r = <<>>
    THEN [m EXCEPT !.panicked = TRUE]
    ELSE [m EXCEPT !.writeConnectionSecretToReference =
              <<[name |-> r[1].name, namespace |-> r[1].namespace]>>]

\* No setter has been called yet.
NoCalls ==
    [deletionPolicy |-> <<>>, managementPolicies |-> <<>>,
     providerConfigReference |-> <<>>, publishConnectionDetailsTo |-> <<>>,
     writeConnectionSecretToReference |-> <<>>]

(***************************************************************************)
(* The ControlPlane condition constructors.  LastTransitionTime is the     *)
(* time of the call and is left out; a message is the sequence of its      *)
(* parts, <<>> when the constructor sets none.                             *)
(***************************************************************************)
Revisions == {"r1", "r2"}
ErrorTexts == {"e1", "e2"}

Healthy ==
    [type |-> "Healthy", status |-> ConditionTrue, reason |-> "HealthyControlPlane",
     message |-> <<>>]

Unhealthy ==
    [type |-> "Healthy", status |-> ConditionFalse, reason |-> "UnhealthyControlPlane",
     message |-> <<>>]

ControlPlaneProvisioned ==
    [type |-> "ControlPlaneProvisioned", status |-> ConditionTrue, reason |-> "Provisioned",
     message |-> <<>>]

ControlPlaneProvisionInProgress ==
    [type |-> "ControlPlaneProvisioned", status |-> ConditionFalse, reason |-> "Provisioned",
     message |-> <<>>]

ControlPlaneProvisioningError(err) ==
    [type |-> "ControlPlaneProvisioned", status |-> ConditionFalse, reason |-> "ProvisioningError",
     message |-> <<err>>]

SourceSynced(revision) ==
    [type |-> "SourceSynced", status |-> ConditionTrue, reason |-> "Completed",
     message |-> <<"In sync with the revision", revision>>]

SourceInProgress(revision) ==
    [type |-> "SourceSynced", status |-> ConditionFalse, reason |-> "InProgress",
     message |-> <<"Syncing revision", revision>>]

SourceError(err) ==
    [type |-> "SourceSynced", status |-> ConditionFalse, reason |-> "InProgress",
     message |-> <<err>>]

SupportedCrossplaneVersion ==
    [type |-> "Supported", status |-> ConditionTrue, reason |-> "SupportedCrossplaneVersion",
     message |-> <<>>]

UnsupportedCrossplaneVersion(msg) ==
    [type |-> "Supported", status |-> ConditionFalse, reason |-> "UnsupportedCrossplaneVersion",
     message |-> <<msg>>]

RestoreCompleted ==
    [type |-> "Restored", status |-> ConditionTrue, reason |-> "Completed",
     message |-> <<>>]

RestoreFailed(err) ==
    [type |-> "Restored", status |-> ConditionFalse, reason |-> "Failed",
     message |-> <<err>>]

RestorePending ==
    [type |-> TypeReady, status |-> ConditionFalse, reason |-> "RestorePending",
     message |-> <<>>]

PauseInProgress ==
    [type |-> "Paused", status |-> ConditionFalse, reason |-> "InProgress",
     message |-> <<>>]

PauseCompleted ==
    [type |-> "Paused", status |-> ConditionTrue, reason |-> "Completed",
     message |-> <<>>]

PauseRestartInProgress ==
    [type |-> "Paused", status |-> ConditionFalse, reason |-> "RestartInProgress",
     message |-> <<>>]

PauseRestarted ==
    [type |-> "Paused", status |-> ConditionFalse, reason |-> "Restarted",
     message |-> <<>>]

\* Every call of a constructor: the constructor's name and what it returns.
ConstructorCalls ==
    {[by |-> "Healthy", cond |-> Healthy]}
    \cup {[by |-> "Unhealthy", cond |-> Unhealthy]}
    \cup {[by |-> "ControlPlaneProvisioned", cond |-> ControlPlaneProvisioned]}
    \cup {[by |-> "ControlPlaneProvisionInProgress", cond |-> ControlPlaneProvisionInProgress]}
    \cup {[by |-> "ControlPlaneProvisioningError", cond |-> ControlPlaneProvisioningError(x)] : x \in ErrorTexts}
    \cup {[by |-> "SourceSynced", cond |-> SourceSynced(x)] : x \in Revisions}
    \cup {[by |-> "SourceInProgress", cond |-> SourceInProgress(x)] : x \in Revisions}
    \cup {[by |-> "SourceError", cond |-> SourceError(x)] : x \in ErrorTexts}
    \cup {[by |-> "SupportedCrossplaneVersion", cond |-> SupportedCrossplaneVersion]}
    \cup {[by |-> "UnsupportedCrossplaneVersion", cond |-> UnsupportedCrossplaneVersion(x)] : x \in ErrorTexts}
    \cup {[by |-> "RestoreCompleted", cond |-> RestoreCompleted]}
    \cup {[by |-> "RestoreFailed", cond |-> RestoreFailed(x)] : x \in ErrorTexts}
    \cup {[by |-> "RestorePending", cond |-> RestorePending]}
    \cup {[by |-> "PauseInProgress", cond |-> PauseInProgress]}
    \cup {[by |-> "PauseCompleted", cond |-> PauseCompleted]}
    \cup {[by |-> "PauseRestartInProgress", cond |-> PauseRestartInProgress]}
    \cup {[by |-> "PauseRestarted", cond |-> PauseRestarted]}

(***************************************************************************)
(* Specification of one classifier call on any error                       *)
(***************************************************************************)
PassIdle ==
    /\ pc = "idle"
    /\ mode = PropagateNone
    /\ discovered = <<>>
    /\ errs = <<>>
    /\ results = <<>>
    /\ objectRefs = <<>>
    /\ conditions = <<>>
    /\ priorLen = 0

WalkIdle ==
    /\ wSnap = [owners |-> NoEdges, refs |-> NoEdges]
    /\ wMode = PropagateNone
    /\ wOut = <<>>

AdmitIdle ==
    /\ aPatch = [metadata |-> <<>>, spec |-> <<>>]
    /\ aVerdict = "pending"

UpdateIdle ==
    /\ uSpec = <<>>
    /\ uCreated = <<>>
    /\ uLast = "none"

AccessIdle ==
    /\ mg = <<>>
    /\ gLast = <<>>

CondIdle ==
    /\ kPrev = <<>>
    /\ kCur = <<>>

ClassifierIdle ==
    /\ cErr = NilError
    /\ cObj = Root
    /\ cUid = <<>>
    /\ cOut = <<>>

InitClassify ==
    /\ cErr \in Errors \cup {NilError}
    /\ cObj = Root
    /\ cUid = <<>>
    /\ cOut = <<>>
    /\ PassIdle
    /\ WalkIdle /\ AdmitIdle /\ UpdateIdle /\ AccessIdle /\ CondIdle

\* The patch succeeded: the classifier records PatchSuccess(u).
ClassifySuccess ==
    /\ cOut = <<>>
    /\ cErr = NilError
    /\ \E i \in Objs :
           /\ cObj' = i
           /\ cUid' = PtrTo(Unstructured(i).uid)
           /\ cOut' = <<PatchSuccess(Unstructured(i))>>
    /\ UNCHANGED <<cErr, pvars, xvars>>

\* The patch failed with cErr: the classifier records PatchFailure(t, uid, err).
ClassifyFailure ==
    /\ cOut = <<>>
    /\ cErr # NilError
    /\ \E i \in Objs : \E uid \in {<<>>, PtrTo(Unstructured(i).uid)} :
           /\ cObj' = i
           /\ cUid' = uid
           /\ cOut' = <<PatchFailure(TypedRef(i), uid, cErr)>>
    /\ UNCHANGED <<cErr, pvars, xvars>>

NextClassify == ClassifySuccess \/ ClassifyFailure

SpecClassify == InitClassify /\ [][NextClassify]_vars

(***************************************************************************)
(* Specification of the reconciliation passes of one override              *)
(***************************************************************************)
Init ==
    /\ ClassifierIdle
    /\ WalkIdle /\ AdmitIdle /\ UpdateIdle /\ AccessIdle /\ CondIdle
    /\ pc = "idle"
    /\ mode \in PropagationModes
    /\ discovered = <<>>
    /\ errs = <<>>
    /\ results = <<>>
    /\ objectRefs = <<>>
    /\ conditions = <<>>
    /\ priorLen = 0

\* The root is fetched and the walker yields the objects to patch.
StartPass ==
    /\ pc \notin {"patching", "deleted"}
    /\ discovered' \in Walks[mode]
    /\ errs' = <<>>
    /\ results' = <<>>
    /\ pc' = "patching"
    /\ priorLen' = Len(objectRefs)
    /\ UNCHANGED <<cvars, xvars, mode, objectRefs, conditions>>

\* The root cannot be fetched: the pass fails as a whole.
RootFetchFails ==
    /\ pc \notin {"patching", "deleted"}
    /\ pc' = "failed"
    /\ discovered' = <<>>
    /\ errs' = <<>>
    /\ results' = <<>>
    /\ UNCHANGED <<cvars, xvars, priorLen, mode, objectRefs, conditions>>

\* The executor patches the next discovered object and the classifier
\* labels the attempt.
PatchNext ==
    /\ pc = "patching"
    /\ Len(results) < Len(discovered)
    /\ \E err \in ApplyErrors :
           LET i == discovered[Len(results) + 1]
               uid == PtrTo(Unstructured(i).uid)
           IN  /\ errs' = Append(errs, err)
               /\ results' = Append(results, Classify(i, uid, err))
    /\ UNCHANGED <<cvars, xvars, priorLen, pc, mode, discovered, objectRefs, conditions>>

\* Every discovered object has an outcome: the aggregator persists them.
Aggregate ==
    /\ pc = "patching"
    /\ Len(results) = Len(discovered)
    /\ objectRefs' = Persist(objectRefs, results)
    /\ conditions' = Readiness(results)
    /\ pc' = "done"
    /\ UNCHANGED <<cvars, xvars, priorLen, mode, discovered, errs, results>>

\* The control loop's context is cancelled: the pass is abandoned and what
\* it had classified so far is dropped.
Cancel ==
    /\ pc = "patching"
    /\ pc' = "cancelled"
    /\ discovered' = <<>>
    /\ errs' = <<>>
    /\ results' = <<>>
    /\ objectRefs' = OnCancel(objectRefs, results)
    /\ UNCHANGED <<cvars, xvars, priorLen, mode, conditions>>

\* The override is deleted and the finalizer has unwound the hierarchy.
DeleteOverride ==
    /\ pc \notin {"patching", "deleted"}
    /\ pc' = "deleted"
    /\ conditions' = <<Deleted>>
    /\ discovered' = <<>>
    /\ errs' = <<>>
    /\ results' = <<>>
    /\ UNCHANGED <<cvars, xvars, priorLen, mode, objectRefs>>

Next ==
    StartPass \/ RootFetchFails \/ PatchNext \/ Aggregate \/ Cancel
        \/ DeleteOverride

Spec == Init /\ [][Next]_vars

(***************************************************************************)
(* Specification of one walk over any cluster snapshot                     *)
(***************************************************************************)
InitWalk ==
    /\ wSnap \in WalkSnapshots
    /\ wMode \in PropagationModes
    /\ wOut = <<>>
    /\ ClassifierIdle /\ PassIdle
    /\ AdmitIdle /\ UpdateIdle /\ AccessIdle /\ CondIdle

\* The walker runs from the root to its end.
DoWalk ==
    /\ wOut = <<>>
    /\ wOut' = Walk(Root, wMode, wSnap)
    /\ UNCHANGED <<cvars, pvars, wSnap, wMode, avars, uvars, gvars, kvars>>

NextWalk == DoWalk

SpecWalk == InitWalk /\ [][NextWalk]_vars

(***************************************************************************)
(* Specification of the admission of one Patch                             *)
(***************************************************************************)
InitAdmit ==
    /\ aPatch \in Patches
    /\ aVerdict = "pending"
    /\ ClassifierIdle /\ PassIdle
    /\ WalkIdle /\ UpdateIdle /\ AccessIdle /\ CondIdle

AdmitPatch ==
    /\ aVerdict = "pending"
    /\ ValidPatch(aPatch)
    /\ aVerdict' = "accepted"
    /\ UNCHANGED <<cvars, pvars, wvars, aPatch, uvars, gvars, kvars>>

RejectPatch ==
    /\ aVerdict = "pending"
    /\ ~ValidPatch(aPatch)
    /\ aVerdict' = "rejected"
    /\ UNCHANGED <<cvars, pvars, wvars, aPatch, uvars, gvars, kvars>>

NextAdmit == AdmitPatch \/ RejectPatch

SpecAdmit == InitAdmit /\ [][NextAdmit]_vars

(***************************************************************************)
(* Specification of a ControlPlane's creation and later spec updates       *)
(***************************************************************************)
InitUpdate ==
    /\ UpdateIdle
    /\ ClassifierIdle /\ PassIdle
    /\ WalkIdle /\ AdmitIdle /\ AccessIdle /\ CondIdle

CreateControlPlane ==
    /\ uSpec = <<>>
    /\ \E s \in ControlPlaneSpecs :
         /\ ValidCreate(Defaulted(s))
         /\ uSpec' = <<Defaulted(s)>>
         /\ uCreated' = <<Defaulted(s)>>
    /\ uLast' = "created"
    /\ UNCHANGED <<cvars, pvars, wvars, avars, gvars, kvars>>

UpdateAccepted ==
    /\ uSpec # <<>>
    /\ \E s \in ControlPlaneSpecs :
         /\ ValidUpdate(uSpec[1], Defaulted(s))
         /\ uSpec' = <<Defaulted(s)>>
    /\ uLast' = "accepted"
    /\ UNCHANGED <<cvars, pvars, wvars, avars, uCreated, gvars, kvars>>

UpdateRejected ==
    /\ uSpec # <<>>
    /\ \E s \in ControlPlaneSpecs : ~ValidUpdate(uSpec[1], Defaulted(s))
    /\ uLast' = "rejected"
    /\ UNCHANGED <<cvars, pvars, wvars, avars, uSpec, uCreated, gvars, kvars>>

NextUpdate == CreateControlPlane \/ UpdateAccepted \/ UpdateRejected

SpecUpdate == InitUpdate /\ [][NextUpdate]_vars

(***************************************************************************)
(* Specification of setter calls on one ControlPlane                       *)
(***************************************************************************)
InitAccessors ==
    /\ \E m \in ControlPlanes : mg = <<m>>
    /\ gLast = <<NoCalls>>
    /\ ClassifierIdle /\ PassIdle
    /\ WalkIdle /\ AdmitIdle /\ UpdateIdle /\ CondIdle

CallSetDeletionPolicy ==
    /\ ~mg[1].panicked
    /\ \E r \in DeletionPolicyValues :
         /\ mg' = <<SetDeletionPolicy(mg[1], r)>>
         /\ gLast' = <<[gLast[1] EXCEPT !.deletionPolicy = <<r>>]>>
    /\ UNCHANGED <<cvars, pvars, wvars, avars, uvars, kvars>>

CallSetManagementPolicies ==
    /\ ~mg[1].panicked
    /\ \E r \in ManagementPoliciesValues :
         /\ mg' = <<SetManagementPolicies(mg[1], r)>>
         /\ gLast' = <<[gLast[1] EXCEPT !.managementPolicies = <<r>>]>>
    /\ UNCHANGED <<cvars, pvars, wvars, avars, uvars, kvars>>

CallSetProviderConfigReference ==
    /\ ~mg[1].panicked
    /\ \E r \in ReferenceValues :
         /\ mg' = <<SetProviderConfigReference(mg[1], r)>>
         /\ gLast' = <<[gLast[1] EXCEPT !.providerConfigReference = <<r>>]>>
    /\ UNCHANGED <<cvars, pvars, wvars, avars, uvars, kvars>>

CallSetPublishConnectionDetailsTo ==
    /\ ~mg[1].panicked
    /\ \E r \in PublishToValues :
         /\ mg' = <<SetPublishConnectionDetailsTo(mg[1], r)>>
         /\ gLast' = <<[gLast[1] EXCEPT !.publishConnectionDetailsTo = <<r>>]>>
    /\ UNCHANGED <<cvars, pvars, wvars, avars, uvars, kvars>>

CallSetWriteConnectionSecretToReference ==
    /\ ~mg[1].panicked
    /\ \E r \in SecretReferenceValues :
         /\ mg' = <<SetWriteConnectionSecretToReference(mg[1], r)>>
         /\ gLast' = <<[gLast[1] EXCEPT !.writeConnectionSecretToReference = <<r>>]>>
    /\ UNCHANGED <<cvars, pvars, wvars, avars, uvars, kvars>>

NextAccessors ==
    \/ CallSetDeletionPolicy
    \/ CallSetManagementPolicies
    \/ CallSetProviderConfigReference
    \/ CallSetPublishConnectionDetailsTo
    \/ CallSetWriteConnectionSecretToReference

SpecAccessors == InitAccessors /\ [][NextAccessors]_vars

(***************************************************************************)
(* Specification of successive constructor calls: kCur is the condition    *)
(* built last and kPrev the one built before it                            *)
(***************************************************************************)
InitConditions ==
    /\ CondIdle
    /\ ClassifierIdle /\ PassIdle
    /\ WalkIdle /\ AdmitIdle /\ UpdateIdle /\ AccessIdle

Construct ==
    /\ \E k \in ConstructorCalls : kCur' = <<k>>
    /\ kPrev' = kCur
    /\ UNCHANGED <<cvars, pvars, wvars, avars, uvars, gvars>>

NextConditions == Construct

SpecConditions == InitConditions /\ [][NextConditions]_vars

(***************************************************************************)
(* Properties of the classifier (checked under SpecClassify)               *)
(***************************************************************************)
Classified == cOut # <<>>
Out == cOut[1]
Structured == cErr.kind = "status"
SchemaCase == IsInternalError(cErr) /\ MatchString(cErr.message)
IsOutcome(st, rsn) == Out.status = st /\ Out.reason = rsn

\* C1 (as claimed): every structured error that carries a field-manager
\* conflict cause is classified Skipped/Conflict, also when it is an
\* internal error whose message matches the field-not-declared pattern.
C1_ConflictAlwaysWins ==
    (Classified /\ Structured /\ HasConflictCause(cErr))
        => IsOutcome(PatchStateSkipped, PtrTo(PatchStateReasonConflict))

\* C1 (amended): a structured error that carries a field-manager conflict
\* cause is classified Skipped/Conflict unless it is an internal error whose
\* message matches the field-not-declared pattern; then the schema-mismatch
\* check comes first and the outcome is Skipped/SchemaMismatch.
C1_ConflictUnlessSchemaMismatch ==
    (Classified /\ Structured /\ HasConflictCause(cErr))
        => IF SchemaCase
           THEN IsOutcome(PatchStateSkipped, PtrTo(PatchStateReasonSchemaMismatch))
           ELSE IsOutcome(PatchStateSkipped, PtrTo(PatchStateReasonConflict))

\* An internal error with a conflict cause whose message does not match the
\* pattern (a newline between the two literals) has been classified Conflict.
C1_Witness ==
    /\ Classified
    /\ Structured
    /\ HasConflictCause(cErr)
    /\ cErr.reason = StatusReasonInternalError
    /\ cErr.message = <<"P", "n", "F">>
    /\ IsOutcome(PatchStateSkipped, PtrTo(PatchStateReasonConflict))

\* C2: for a structured error without a field-manager conflict cause the
\* outcome is Skipped/SchemaMismatch if and only if the error is an internal
\* error and its status message matches the pattern; otherwise the outcome
\* stays Error.
C2_SchemaMismatchIff ==
    (Classified /\ Structured /\ ~HasConflictCause(cErr))
        => /\ IsOutcome(PatchStateSkipped, PtrTo(PatchStateReasonSchemaMismatch))
                <=> SchemaCase
           /\ ~SchemaCase => Out.status = PatchStateError

\* A non-internal structured error whose message matches the pattern has
\* been classified Error.
C2_Witness ==
    /\ Classified
    /\ Structured
    /\ ~HasConflictCause(cErr)
    /\ cErr.reason = StatusReasonNotFound
    /\ MatchString(cErr.message)
    /\ Out.status = PatchStateError

\* C3: a structured error that is neither a field-manager conflict nor a
\* schema mismatch is classified Error, with the API status reason verbatim
\* as reason (an empty one included) and the error text as message.
C3_OtherStructuredIsError ==
    (Classified /\ Structured /\ ~HasConflictCause(cErr) /\ ~SchemaCase)
        => /\ IsOutcome(PatchStateError, PtrTo(cErr.reason))
           /\ Out.message = PtrTo(ErrorText(cErr))

\* A wrapped structured error with an empty status reason has been
\* classified.
C3_Witness ==
    /\ Classified
    /\ Structured
    /\ cErr.wrap
    /\ cErr.reason = StatusReasonUnknown
    /\ cErr.message # <<>>
    /\ IsOutcome(PatchStateError, PtrTo(""))

\* C4: an error that is not and does not wrap a StatusError is classified
\* Error with no reason and the error text as message, whatever the text.
C4_UnstructuredIsErrorNoReason ==
    (Classified /\ cErr.kind = "plain")
        => /\ IsOutcome(PatchStateError, <<>>)
           /\ Out.message = PtrTo(ErrorText(cErr))

\* An unstructured error whose text matches the pattern has been classified.
C4_Witness ==
    /\ Classified
    /\ cErr.kind = "plain"
    /\ MatchString(ErrorText(cErr))
    /\ Out.status = PatchStateError

\* C5: a patch attempt that ends with no error is recorded as Success with
\* the patched object's UID and neither reason nor message.
C5_NoErrorIsSuccess ==
    (Classified /\ cErr = NilError)
        => /\ IsOutcome(PatchStateSuccess, <<>>)
           /\ Out.uid = PtrTo(Unstructured(cObj).uid)
           /\ Out.message = <<>>

\* A patch of the last object that ended with no error has been recorded.
C5_Witness ==
    /\ Classified
    /\ cErr = NilError
    /\ cObj = NObjs
    /\ Out.status = PatchStateSuccess

\* C6: a NotFound structured error (without a conflict cause) is classified
\* Error/NotFound, and NotFound() is true of an outcome if and only if its
\* status is Error and its reason is NotFound.
C6_NotFoundExactly ==
    Classified
        => /\ (Structured /\ cErr.reason = StatusReasonNotFound
                  /\ ~HasConflictCause(cErr))
                => IsOutcome(PatchStateError, PtrTo(StatusReasonNotFound))
           /\ NotFound(Out)
                <=> IsOutcome(PatchStateError, PtrTo(StatusReasonNotFound))

\* A wrapped NotFound error has been classified and NotFound() is true of
\* the outcome.
C6_Witness ==
    /\ Classified
    /\ Structured
    /\ cErr.wrap
    /\ cErr.reason = StatusReasonNotFound
    /\ NotFound(Out)

\* C7: PatchFailure yields, for every error, an outcome of the taxonomy:
\* Skipped/Conflict, Skipped/SchemaMismatch, Error with the API status reason
\* or Error without reason; never Success, never Skipped with another reason.
C7_FailureTaxonomy ==
    (Classified /\ cErr # NilError)
        => \/ IsOutcome(PatchStateSkipped, PtrTo(PatchStateReasonConflict))
           \/ IsOutcome(PatchStateSkipped, PtrTo(PatchStateReasonSchemaMismatch))
           \/ Structured /\ IsOutcome(PatchStateError, PtrTo(cErr.reason))
           \/ ~Structured /\ IsOutcome(PatchStateError, <<>>)

\* An error whose API status reason is Conflict and that carries a
\* field-manager conflict cause after another cause has been classified.
C7_Witness ==
    /\ Classified
    /\ Structured
    /\ cErr.reason = "Conflict"
    /\ cErr.details = <<[causes |-> <<"FieldValueInvalid", CauseTypeFieldManagerConflict>>]>>
    /\ Out.status = PatchStateSkipped

\* C8: an outcome record carries a reason only when its status is Skipped or
\* Error; a Success record carries none.
C8_ReasonOnlyWhenNotSuccess ==
    Classified
        => /\ Out.reason # <<>> => Out.status \in {PatchStateSkipped, PatchStateError}
           /\ Out.status = PatchStateSuccess => Out.reason = <<>>

\* A Success record without a reason has been produced.
C8_Witness ==
    /\ Classified
    /\ Out.status = PatchStateSuccess
    /\ Out.reason = <<>>
    /\ Out.uid # <<>>

(***************************************************************************)
(* Properties of the reconciliation pass (checked under Spec)              *)
(***************************************************************************)
PassDone == pc = "done"
NoErrorOutcome ==
    \A i \in DOMAIN results :
        results[i].status \in {PatchStateSuccess, PatchStateSkipped}
ReadyIs(st) ==
    /\ conditions # <<>>
    /\ conditions[1].type = "Ready"
    /\ conditions[1].status = st

\* C9: after a completed pass the readiness condition is Traversed (type
\* Ready, status True, reason Traversed) if and only if every outcome of the
\* pass is Success or Skipped; with at least one Error outcome it is False.
C9_TraversedIffNoError ==
    PassDone
        => /\ NoErrorOutcome
                <=> conditions = <<[type |-> "Ready", status |-> "True",
                                    reason |-> "Traversed"]>>
           /\ ~NoErrorOutcome => ReadyIs("False")

\* A pass over several objects whose only outcome other than Success is a
\* Skipped/Conflict has completed.
C9_Witness ==
    /\ PassDone
    /\ Len(results) >= 2
    /\ \E i \in DOMAIN results :
           /\ results[i].status = PatchStateSkipped
           /\ results[i].reason = PtrTo(PatchStateReasonConflict)
           /\ \A j \in DOMAIN results \ {i} : results[j].status = PatchStateSuccess
    /\ ReadyIs("True")

\* C10: a per-object failure never ends the pass: a completed pass over N
\* discovered objects persists exactly N outcome records, one per object in
\* the order discovered; an object whose patch returned a transport-level
\* error is Error with no reason and readiness is then False, and the other
\* objects keep their own Success or Skipped outcome.
C10_FailureNeverAborts ==
    PassDone
        => /\ Len(objectRefs) = Len(discovered)
           /\ \A i \in DOMAIN discovered :
                  /\ objectRefs[i].ref.name = discovered[i]
                  /\ errs[i] = TransportError
                       => /\ objectRefs[i].status = PatchStateError
                          /\ objectRefs[i].reason = <<>>
                          /\ ReadyIs("False")
                  /\ errs[i] = NilError
                       => objectRefs[i].status = PatchStateSuccess
                  /\ errs[i] = ConflictError
                       => objectRefs[i].status = PatchStateSkipped

\* A pass over a descending chain of three objects, the second of which
\* returned a transport-level error, has completed with three records.
C10_Witness ==
    /\ PassDone
    /\ mode = PropagateDescend
    /\ discovered = <<1, 2, 3>>
    /\ errs = <<NilError, TransportError, ConflictError>>
    /\ Len(objectRefs) = 3
    /\ ReadyIs("False")

\* C11: after a completed pass status.objectRefs is exactly the outcome
\* sequence of that pass, in the walker's visitation order with the root
\* first; nothing of an earlier list is kept.
C11_ReplacedWholesale ==
    PassDone
        => /\ objectRefs = results
           /\ Len(objectRefs) = Len(discovered)
           /\ objectRefs[1].ref.name = Root
           /\ \A i \in DOMAIN objectRefs : objectRefs[i].ref.name = discovered[i]

\* A pass over the root alone has completed when the status held the
\* records of an earlier pass over every object.
C11_Witness ==
    /\ PassDone
    /\ priorLen = NObjs
    /\ discovered = <<Root>>
    /\ Len(objectRefs) = 1

\* C14: the persisted status changes only when a full pass completes: the
\* start of a pass, every patch step and a cancellation leave objectRefs
\* and the readiness condition as they were before the pass started, and a
\* completing step persists one outcome per discovered object.
C14_StatusOnlyByFullPass ==
    [][/\ ((pc = "patching" \/ pc' = "patching") /\ pc' # "done")
            => (objectRefs' = objectRefs /\ conditions' = conditions)
       /\ (pc = "patching" /\ pc' = "done")
            => (Len(results) = Len(discovered) /\ objectRefs' = results)]_vars

\* A pass has been cancelled when the status held the records and the
\* Traversed condition of an earlier pass over every object.
C14_Witness ==
    /\ pc = "cancelled"
    /\ priorLen = NObjs
    /\ Len(objectRefs) = NObjs
    /\ ReadyIs("True")

\* C15: the Deleted condition is of type Ready with status False and reason
\* Deleted, and differs from the Traversed condition in status and in reason.
C15_DeletedIsNotReady ==
    /\ pc = "deleted"
         => conditions = <<[type |-> "Ready", status |-> "False",
                            reason |-> "Deleted"]>>
    /\ (PassDone /\ NoErrorOutcome)
         => /\ conditions[1].type = Deleted.type
            /\ conditions[1].status # Deleted.status
            /\ conditions[1].reason # Deleted.reason

\* The override has been deleted after a pass that traversed every object.
C15_Witness ==
    /\ pc = "deleted"
    /\ Len(objectRefs) = NObjs
    /\ \A i \in DOMAIN objectRefs : objectRefs[i].status = PatchStateSuccess
    /\ conditions = <<Deleted>>

(***************************************************************************)
(* Properties of the walker (checked under SpecWalk)                       *)
(***************************************************************************)
Walked == wOut # <<>>
NoRepeat(q) == \A i, j \in DOMAIN q : q[i] = q[j] => i = j

\* The objects that can be reached from the objects of S along the edges.
RECURSIVE ReachableFrom(_, _)
ReachableFrom(S, edges) ==
    LET T == S \cup UNION {edges[x] : x \in S}
    IN  IF T = S THEN S ELSE ReachableFrom(T, edges)

\* C12: with propagation mode None the walk is exactly <<root>>, whatever
\* the ownership and reference graphs around the root.
C12_NoneVisitsRootOnly ==
    (Walked /\ wMode = "None") => wOut = <<Root>>

\* A walk with mode None has ended for a root that has an owner and
\* references another object.
C12_Witness ==
    /\ Walked
    /\ wMode = "None"
    /\ wSnap.owners[Root] # {}
    /\ wSnap.refs[Root] # {}
    /\ wOut = <<Root>>

\* C13: an ascending walk ends on every ownership graph, cyclic or not, with
\* a sequence that starts with the root, holds no object twice and holds
\* every object that can be reached from the root through the owners.
C13_AscendingVisitsOnce ==
    (Walked /\ wMode = "Ascending")
        => /\ wOut[1] = Root
           /\ NoRepeat(wOut)
           /\ Len(wOut) <= NObjs
           /\ SeqRange(wOut) = ReachableFrom({Root}, wSnap.owners)

\* An ascending walk has ended on a graph in which the root and another
\* object own each other.
C13_Witness ==
    /\ Walked
    /\ wMode = "Ascending"
    /\ wSnap.owners[1] = {2}
    /\ wSnap.owners[2] = {1}
    /\ wOut = <<1, 2>>

(***************************************************************************)
(* Properties of the Patch validation (checked under SpecAdmit)            *)
(***************************************************************************)
\* C16: an accepted Patch has metadata or spec set, and when its metadata
\* carries annotations there are one or two of them and each key is
\* crossplane.io/paused or spaces.upbound.io/force-reconcile-at.
C16_AcceptedPatchShape ==
    aVerdict = "accepted"
        => /\ aPatch.metadata # <<>> \/ aPatch.spec # <<>>
           /\ (aPatch.metadata # <<>> /\ aPatch.metadata[1].annotations # <<>>)
                => LET K == aPatch.metadata[1].annotations[1]
                   IN  /\ Cardinality(K) \in {1, 2}
                       /\ K \subseteq {"crossplane.io/paused",
                                       "spaces.upbound.io/force-reconcile-at"}

\* A Patch with both allowed annotations and no spec has been accepted.
C16_Witness ==
    /\ aVerdict = "accepted"
    /\ aPatch.spec = <<>>
    /\ aPatch.metadata # <<>>
    /\ aPatch.metadata[1].annotations # <<>>
    /\ Cardinality(aPatch.metadata[1].annotations[1]) = 2

(***************************************************************************)
(* Properties of ControlPlane spec updates (checked under SpecUpdate)      *)
(***************************************************************************)
\* C17: after any sequence of accepted updates, spec.restore is present
\* exactly when it was present at creation.
C17_RestorePresenceFixed ==
    uSpec # <<>> => ((uSpec[1].restore = <<>>) <=> (uCreated[1].restore = <<>>))

\* An accepted update changed a spec that has a restore (its finishedAt was
\* recorded) and the restore is still there.
C17_Witness ==
    /\ uLast = "accepted"
    /\ uSpec # <<>>
    /\ uCreated[1].restore # <<>>
    /\ uSpec[1].restore # <<>>
    /\ uSpec[1].restore[1].finishedAt # uCreated[1].restore[1].finishedAt

(***************************************************************************)
(* The reference of a Success record (checked under SpecClassify)          *)
(***************************************************************************)
\* C18 (as claimed): the reference recorded by PatchSuccess(u) is the typed
\* reference of the object: apiGroup is the group alone, and kind, namespace
\* and name are the object's, the same reference a PatchFailure record of
\* that object carries.
C18_SuccessRefIsTypedRef ==
    (Classified /\ cErr = NilError) => Out.ref = TypedRef(cObj)

(***************************************************************************)
(* Properties of the accessors (checked under SpecAccessors)               *)
(***************************************************************************)
\* C19 (as claimed): after any sequence of setter calls, every call returns
\* and each getter whose setter has been called returns the argument of the
\* most recent call of that setter.
C19_GettersReturnLastSet ==
    mg # <<>> =>
        LET m == mg[1]
            last == gLast[1]
        IN  /\ ~m.panicked
            /\ last.managementPolicies # <<>>
                 => GetManagementPolicies(m) = last.managementPolicies[1]
            /\ last.deletionPolicy # <<>>
                 => GetDeletionPolicy(m) = last.deletionPolicy[1]
            /\ last.publishConnectionDetailsTo # <<>>
                 => GetPublishConnectionDetailsTo(m)
                      = last.publishConnectionDetailsTo[1]
            /\ last.writeConnectionSecretToReference # <<>>
                 => GetWriteConnectionSecretToReference(m)
                      = last.writeConnectionSecretToReference[1]
            /\ last.providerConfigReference # <<>>
                 => GetProviderConfigReference(m)
                      = last.providerConfigReference[1]

(***************************************************************************)
(* Properties of the condition constructors (checked under SpecConditions) *)
(***************************************************************************)
\* C20 (as claimed): two conditions of the same type built by different
\* constructors differ in status or in reason.
C20_SameTypeDistinguishable ==
    (/\ kPrev # <<>>
     /\ kCur # <<>>
     /\ kPrev[1].cond.type = kCur[1].cond.type
     /\ kPrev[1].by # kCur[1].by)
        => \/ kPrev[1].cond.status # kCur[1].cond.status
           \/ kPrev[1].cond.reason # kCur[1].cond.reason

====
